---- MODULE Spec2Model ----
(***************************************************************************)
(* State-machine model of app.py: a Streamlit script that drives a greedy  *)
(* Q-table policy through the Taxi-v3 environment.                         *)
(*                                                                         *)
(* Streamlit executes the whole script once per event of a browser         *)
(* session: the first load of the session, a click on one of the three     *)
(* buttons (exactly one button is True in the run its click triggers), or  *)
(* a plain rerun.  st.session_state is private to a session; the values    *)
(* returned by the @st.cache_resource function load_resources are shared   *)
(* by every session of the server process.                                 *)
(*                                                                         *)
(* The environment is an external collaborator (gymnasium).  It is         *)
(* modelled by what the script observes of it: reset() returns some state, *)
(* step() returns some (state, reward, terminated) and the TimeLimit       *)
(* wrapper of Taxi-v3 reports truncated once the elapsed steps of the      *)
(* episode reach the limit.                                                *)
(***************************************************************************)
EXTENDS Integers, Sequences, FiniteSets, TLC

\* ---- bounds ----
NumStates == 2          \* rows of the Q-table = size of the observation space
NumActions == 3         \* columns of the Q-table (at most the 6 of ACTION_MAP)
MaxQ == 1               \* Q-values range over 0..MaxQ
MaxEpisodeSteps == 2    \* TimeLimit of the environment (200 for Taxi-v3)
MaxSteps == 2           \* cap on a session's step counter

Sessions == {"s1", "s2"}
States == 0 .. NumStates - 1
Actions == 0 .. NumActions - 1
QVals == 0 .. MaxQ
Rows == [Actions -> QVals]
\* Tables the evaluator is called on: any row at one state, zeros elsewhere.
QTables ==
  { [s \in States |-> IF s = k THEN row ELSE [a \in Actions |-> 0]] :
      k \in States, row \in Rows }
\* Tables the sessions are driven with: the greedy action of state s is
\* (s + k) % NumActions for k = 0 or 1, or every row is tied.
DriverTables ==
  { [s \in States |-> [a \in Actions |->
       IF a = (s + k) % NumActions THEN MaxQ ELSE 0]] : k \in {0, 1} }
  \cup { [s \in States |-> [a \in Actions |-> 0]] }
EvalInputs == (0 - NumStates - 1) .. (NumStates + 1)

\* ---- texts the script shows ----
ACTION_MAP ==
  [a \in 0 .. 5 |->
     CASE a = 0 -> "South" [] a = 1 -> "North" [] a = 2 -> "East"
       [] a = 3 -> "West" [] a = 4 -> "Pickup" [] a = 5 -> "Dropoff"]
MsgNone == "none"
MsgReset == "Environment Reset!"
MsgFinished == "Episode finished. Please reset the environment."
MsgMissing == "Error: Q-table file not found."

VARIABLES
  fileExists,   \* whether best_intra_alt_q_table_U.npy is on disk
  q_table,      \* the array stored in that file
  cache,        \* st.cache_resource entry of load_resources
  env,          \* the one cached environment: [s, elapsed]
  ss,           \* st.session_state of each session
  started,      \* sessions whose first script run has happened
  pc,           \* where the session's current script run stands
  frame,        \* what frame_placeholder of the session shows
  event,        \* the script run or loop iteration that acted last, and the
                \* step counter it started from
  calls,        \* the env.reset / env.step / env.render calls it made
  notice,       \* st.success / st.warning / st.error text it showed
  received,     \* per session: the step results since its last env.reset()
  evalState,    \* argument of a direct call of select_best_action
  evalResult    \* its outcome

vars == << fileExists, q_table, cache, env, ss, started, pc, frame, event,
           calls, notice, received, evalState, evalResult >>

\* ---------------------------------------------------------------------
\* Policy evaluator
\* ---------------------------------------------------------------------
RECURSIVE ArgmaxScanTies(_, _, _)
ArgmaxScanTies(row, i, best) ==
  IF i >= Cardinality(DOMAIN row) THEN best
  ELSE ArgmaxScanTies(row, i + 1, IF row[i] >= row[best] THEN i ELSE best)

\* np.argmax: one left-to-right scan that keeps the first maximum.
RECURSIVE ArgmaxScan(_, _, _)
ArgmaxScan(row, i, best) ==
  IF i >= Cardinality(DOMAIN row) THEN best
  ELSE ArgmaxScan(row, i + 1, IF row[i] > row[best] THEN i ELSE best)

argmaxLast(row) == ArgmaxScanTies(row, 1, 0)

argmax(row) == ArgmaxScan(row, 1, 0)

\* q_table_local[int(state), :] -- numpy integer indexing on axis 0 of an
\* array with n rows: an index in -n .. -1 counts from the end, an index
\* outside -n .. n-1 raises IndexError.
NumpyRow(state, q_table_local) ==
  LET n == Cardinality(DOMAIN q_table_local) IN
  IF state >= n \/ state < 0 - n THEN [raised |-> "IndexError", row |-> 0]
  ELSE [raised |-> "none", row |-> IF state < 0 THEN state + n ELSE state]

select_first_action(state, q_table_local) ==
  [raised |-> NumpyRow(state, q_table_local).raised, action |-> 0]

select_best_action(state, q_table_local) ==
  LET ix == NumpyRow(state, q_table_local) IN
  IF ix.raised # "none" THEN [raised |-> ix.raised, action |-> 0]
  ELSE [raised |-> "none", action |-> argmax(q_table_local[ix.row])]

\* ---------------------------------------------------------------------
\* Session state
\* ---------------------------------------------------------------------
\* A session before line 50 has run: no key is present.
EmptySession ==
  [has_state |-> FALSE, state |-> 0, total_reward |-> 0, steps |-> 0,
   terminated |-> FALSE, truncated |-> FALSE, last_action_desc |-> "None",
   last_reward |-> 0, run_flag |-> "absent"]

\* The EpisodeState part of a session state.
EpisodeState(rec) ==
  [has_state |-> rec.has_state, state |-> rec.state,
   total_reward |-> rec.total_reward, steps |-> rec.steps,
   terminated |-> rec.terminated, truncated |-> rec.truncated,
   last_action_desc |-> rec.last_action_desc, last_reward |-> rec.last_reward]

ResetKeepsTotals(rec, s0) ==
  [rec EXCEPT !.has_state = TRUE, !.state = s0, !.steps = 0,
              !.terminated = FALSE, !.truncated = FALSE,
              !.last_action_desc = "None", !.last_reward = 0]

\* Lines 51-57 and 61-67: the assignments after env.reset() returned s0.
ResetFields(rec, s0) ==
  [rec EXCEPT !.has_state = TRUE, !.state = s0, !.total_reward = 0,
              !.steps = 0, !.terminated = FALSE, !.truncated = FALSE,
              !.last_action_desc = "None", !.last_reward = 0]

NeedsInitAlways(rec) == TRUE

\* Line 50: 'state' not in st.session_state.
NeedsInit(rec) == ~rec.has_state

StepAlways(rec) == TRUE

CanStepIgnoresTruncated(rec) == ~rec.terminated

CanStepCapped(rec) == ~rec.terminated /\ ~rec.truncated /\ rec.steps < 1

\* Line 93 and line 136: the guard of a transition.
CanStep(rec) == ~rec.terminated /\ ~rec.truncated

StepFieldsOverwrite(rec, action, r) ==
  [rec EXCEPT !.state = r.state, !.total_reward = r.reward,
              !.steps = rec.steps + 1, !.terminated = r.terminated,
              !.truncated = r.truncated,
              !.last_action_desc = ACTION_MAP[action],
              !.last_reward = r.reward]

StepFieldsSkip(rec, action, r) ==
  [rec EXCEPT !.state = r.state, !.total_reward = rec.total_reward + r.reward,
              !.steps = rec.steps + 2, !.terminated = r.terminated,
              !.truncated = r.truncated,
              !.last_action_desc = ACTION_MAP[action],
              !.last_reward = r.reward]

\* Lines 95-101 and 138-144: the assignments after env.step(action)
\* returned r.
StepFieldsStaleState(rec, action, r) ==
  [rec EXCEPT !.total_reward = rec.total_reward + r.reward,
              !.steps = rec.steps + 1, !.terminated = r.terminated,
              !.truncated = r.truncated,
              !.last_action_desc = ACTION_MAP[action],
              !.last_reward = r.reward]

StepFields(rec, action, r) ==
  [rec EXCEPT !.state = r.state, !.total_reward = rec.total_reward + r.reward,
              !.steps = rec.steps + 1, !.terminated = r.terminated,
              !.truncated = r.truncated,
              !.last_action_desc = ACTION_MAP[action],
              !.last_reward = r.reward]

\* ---------------------------------------------------------------------
\* Environment (gym.make('Taxi-v3', render_mode='rgb_array'))
\* ---------------------------------------------------------------------
NoEnv == [s |-> 0, elapsed |-> 0]

\* env.reset(): any state of the observation space; TimeLimit restarts.
EnvAfterReset(s0) == [s |-> s0, elapsed |-> 0]

\* env.step(action): the results the environment may return from e.
\* Taxi-v3 pays -1 for a move and 20 for the drop-off that ends the episode;
\* TimeLimit adds truncated once elapsed reaches the limit.
StepResults(e) ==
  { [state |-> s1, reward |-> IF tm THEN 20 ELSE 0 - 1, terminated |-> tm,
     truncated |-> (e.elapsed + 1 >= MaxEpisodeSteps)] :
       s1 \in States, tm \in BOOLEAN }

EnvAfterStep(e, r) == [s |-> r.state, elapsed |-> e.elapsed + 1]

\* The env calls of one script run or loop iteration.
NoResult ==
  [state |-> 0, reward |-> 0, terminated |-> FALSE, truncated |-> FALSE]
NoCalls ==
  [reset |-> 0, reset_state |-> 0, step |-> 0, step_action |-> 0,
   step_result |-> NoResult, render |-> 0]
CallReset(s0) == [NoCalls EXCEPT !.reset = 1, !.reset_state = s0]
CallStep(action, r) ==
  [NoCalls EXCEPT !.step = 1, !.step_action = action, !.step_result = r]

\* The results a session has received, after a run that made the calls
\* made.
Received(log, made) ==
  IF made.reset = 1 THEN << >>
  ELSE IF made.step = 1 THEN Append(log, made.step_result)
  ELSE log

\* ---------------------------------------------------------------------
\* Display
\* ---------------------------------------------------------------------
Blank == [shown |-> FALSE, state |-> 0, caption |-> 0, banner |-> "none"]

\* update_display(): the frame env.render() draws of the environment, the
\* step caption and the end-of-episode banner.
Display(rec, e) ==
  [shown |-> TRUE, state |-> e.s, caption |-> rec.steps,
   banner |-> IF rec.terminated THEN "success"
              ELSE IF rec.truncated THEN "truncated" ELSE "none"]

\* ---------------------------------------------------------------------
\* Script run
\* ---------------------------------------------------------------------
LoadResourcesRetry ==
  IF cache = "loaded" THEN cache
  ELSE IF fileExists THEN "loaded" ELSE "failed"

\* Lines 30-43: the cached load_resources.  st.cache_resource keeps what the
\* first call returned, (None, None) included.
LoadResources ==
  IF cache # "uncached" THEN cache
  ELSE IF fileExists THEN "loaded" ELSE "failed"

\* Lines 45-46: st.stop() when the resources are missing.
Stopped(s, kind) ==
  /\ cache' = LoadResources
  /\ started' = [started EXCEPT ![s] = TRUE]
  /\ event' = [session |-> s, kind |-> kind, steps_before |-> ss[s].steps]
  /\ calls' = NoCalls
  /\ notice' = MsgMissing
  /\ UNCHANGED << fileExists, q_table, env, ss, pc, frame, received,
                  evalState, evalResult >>

\* Lines 134-154 once the button handlers have left the session state rec
\* and the environment e: the main loop is entered when the key
\* "Run Full Simulation" is in st.session_state and true; otherwise the
\* script ends with update_display().
Finish(s, kind, rec, e, made, msg) ==
  /\ cache' = LoadResources
  /\ started' = [started EXCEPT ![s] = TRUE]
  /\ ss' = [ss EXCEPT ![s] = rec]
  /\ env' = e
  /\ event' = [session |-> s, kind |-> kind, steps_before |-> ss[s].steps]
  /\ notice' = msg
  /\ received' = [received EXCEPT ![s] = Received(@, made)]
  /\ IF rec.run_flag = "true"
     THEN /\ pc' = [pc EXCEPT ![s] = "loop"]
          /\ frame' = frame
          /\ calls' = made
     ELSE /\ pc' = [pc EXCEPT ![s] = "done"]
          /\ frame' = [frame EXCEPT ![s] = Display(rec, e)]
          /\ calls' = [made EXCEPT !.render = 1]
  /\ UNCHANGED << fileExists, q_table, evalState, evalResult >>

\* A script run in which no button is pressed: lines 43-57, then the rest
\* of the script with no handler taken.
RunWithoutButton(s, kind) ==
  IF LoadResources = "failed" THEN Stopped(s, kind)
  ELSE IF NeedsInit(ss[s])
  THEN \E s0 \in States :
         Finish(s, kind, ResetFields(ss[s], s0), EnvAfterReset(s0),
                CallReset(s0), MsgNone)
  ELSE Finish(s, kind, ss[s], env, NoCalls, MsgNone)

\* First script run of a session: no button is pressed, 'state' is not in
\* st.session_state (lines 50-57).
FirstLoad(s) ==
  /\ ~started[s]
  /\ RunWithoutButton(s, "first")

\* A later script run with no button pressed.
Rerun(s) ==
  /\ started[s]
  /\ RunWithoutButton(s, "rerun")

\* Lines 85-86: the button only calls reset_simulation(); st.button is
\* given no key, so nothing stores "Run Full Simulation" in the session
\* state.
RunFullSimulation(s) ==
  /\ ss[s].has_state
  /\ \E s0 \in States :
       Finish(s, "run", ResetFields(ss[s], s0), EnvAfterReset(s0),
              CallReset(s0), MsgReset)

\* Lines 89-90.
ResetEnvironment(s) ==
  /\ ss[s].has_state
  /\ \E s0 \in States :
       Finish(s, "reset", ResetFields(ss[s], s0), EnvAfterReset(s0),
              CallReset(s0), MsgReset)

\* Lines 92-103.
StepManually(s) ==
  /\ ss[s].has_state
  /\ IF CanStep(ss[s])
     THEN /\ ss[s].steps < MaxSteps
          /\ LET action == select_best_action(ss[s].state, q_table).action IN
             \E r \in StepResults(env) :
               Finish(s, "step", StepFields(ss[s], action, r),
                      EnvAfterStep(env, r), CallStep(action, r), MsgNone)
     ELSE Finish(s, "step", ss[s], env, NoCalls, MsgFinished)

MainLoopIterationNoDisplay(s) ==
  /\ pc[s] = "loop"
  /\ CanStep(ss[s])
  /\ ss[s].steps < MaxSteps
  /\ LET action == select_best_action(ss[s].state, q_table).action IN
     \E r \in StepResults(env) :
       /\ ss' = [ss EXCEPT ![s] = StepFields(ss[s], action, r)]
       /\ env' = EnvAfterStep(env, r)
       /\ calls' = CallStep(action, r)
       /\ received' = [received EXCEPT ![s] = Append(@, r)]
  /\ event' = [session |-> s, kind |-> "loop", steps_before |-> ss[s].steps]
  /\ notice' = MsgNone
  /\ UNCHANGED << fileExists, q_table, cache, started, pc, frame, evalState,
                  evalResult >>

\* Lines 136-148: one iteration of the main loop, with its update_display()
\* and time.sleep(0.2).
MainLoopIteration(s) ==
  /\ pc[s] = "loop"
  /\ CanStep(ss[s])
  /\ ss[s].steps < MaxSteps
  /\ LET action == select_best_action(ss[s].state, q_table).action IN
     \E r \in StepResults(env) :
       /\ ss' = [ss EXCEPT ![s] = StepFields(ss[s], action, r)]
       /\ env' = EnvAfterStep(env, r)
       /\ frame' = [frame EXCEPT ![s] = Display(ss'[s], env')]
       /\ calls' = [CallStep(action, r) EXCEPT !.render = 1]
       /\ received' = [received EXCEPT ![s] = Append(@, r)]
  /\ event' = [session |-> s, kind |-> "loop", steps_before |-> ss[s].steps]
  /\ notice' = MsgNone
  /\ UNCHANGED << fileExists, q_table, cache, started, pc, evalState,
                  evalResult >>

\* Lines 136 and 151-154: the loop condition fails, the flag is cleared and
\* the script ends with update_display().
MainLoopExit(s) ==
  /\ pc[s] = "loop"
  /\ ~CanStep(ss[s])
  /\ ss' = [ss EXCEPT ![s].run_flag = "false"]
  /\ pc' = [pc EXCEPT ![s] = "done"]
  /\ frame' = [frame EXCEPT ![s] = Display(ss[s], env)]
  /\ calls' = [NoCalls EXCEPT !.render = 1]
  /\ event' = [session |-> s, kind |-> "exit", steps_before |-> ss[s].steps]
  /\ notice' = MsgNone
  /\ UNCHANGED << fileExists, q_table, cache, env, started, received,
                  evalState, evalResult >>

\* Outside the script: the Q-table file is put in place.
FileAppears ==
  /\ ~fileExists
  /\ fileExists' = TRUE
  /\ UNCHANGED << q_table, cache, env, ss, started, pc, frame, event, calls,
                  notice, received, evalState, evalResult >>

\* A direct call select_best_action(evalState, q_table).
CallSelectBestAction ==
  /\ ~evalResult.called
  /\ evalResult' =
       LET got == select_best_action(evalState, q_table) IN
       [called |-> TRUE, raised |-> got.raised, action |-> got.action]
  /\ UNCHANGED << fileExists, q_table, cache, env, ss, started, pc, frame,
                  event, calls, notice, received, evalState >>

\* ---------------------------------------------------------------------
\* Specifications
\* ---------------------------------------------------------------------
Idle ==
  /\ cache = "uncached"
  /\ env = NoEnv
  /\ started = [s \in Sessions |-> FALSE]
  /\ pc = [s \in Sessions |-> "done"]
  /\ frame = [s \in Sessions |-> Blank]
  /\ event = [session |-> "none", kind |-> "none", steps_before |-> 0]
  /\ calls = NoCalls
  /\ notice = MsgNone
  /\ received = [s \in Sessions |-> << >>]
  /\ evalResult = [called |-> FALSE, raised |-> "none", action |-> 0]

\* The server starts: nothing is cached; no session exists.
Init ==
  /\ Idle
  /\ fileExists \in BOOLEAN
  /\ q_table \in DriverTables
  /\ ss = [s \in Sessions |-> EmptySession]
  /\ evalState = 0

Next ==
  \/ FileAppears
  \/ \E s \in Sessions :
       \/ FirstLoad(s)
       \/ Rerun(s)
       \/ RunFullSimulation(s)
       \/ ResetEnvironment(s)
       \/ StepManually(s)

\* The program: the events of the sessions.
Spec == Init /\ [][Next]_vars

\* The main loop's fragment of the script.  Spec never enters it, because
\* nothing stores the key it tests (line 134); here the key is an input of
\* the one session LoopSession, which may start with it set to true, and
\* only that session acts.
LoopSession == "s1"

InitLoop ==
  /\ Idle
  /\ fileExists \in BOOLEAN
  /\ q_table \in DriverTables
  /\ \E f \in {"absent", "true"} :
       ss = [s \in Sessions |->
               IF s = LoopSession THEN [EmptySession EXCEPT !.run_flag = f]
               ELSE EmptySession]
  /\ evalState = 0

NextLoop ==
  \/ FirstLoad(LoopSession)
  \/ Rerun(LoopSession)
  \/ RunFullSimulation(LoopSession)
  \/ ResetEnvironment(LoopSession)
  \/ StepManually(LoopSession)
  \/ MainLoopIteration(LoopSession)
  \/ MainLoopExit(LoopSession)

SpecLoop == InitLoop /\ [][NextLoop]_vars

\* The script thread runs the loop on: an iteration or the exit that can be
\* taken is taken, unless a new script run of the session replaces it.
LoopStep == MainLoopIteration(LoopSession) \/ MainLoopExit(LoopSession)

SpecLoopFair == SpecLoop /\ WF_vars(LoopStep)

\* The policy evaluator alone, on every table and every index around the
\* table's range.
InitEval ==
  /\ Idle
  /\ fileExists = TRUE
  /\ q_table \in QTables
  /\ ss = [s \in Sessions |-> EmptySession]
  /\ evalState \in EvalInputs

NextEval == CallSelectBestAction

SpecEval == InitEval /\ [][NextEval]_vars

\* ---------------------------------------------------------------------
\* Properties
\* ---------------------------------------------------------------------
Terminal(rec) == rec.terminated \/ rec.truncated

\* C1 -- Terminal absorption: a "Step Manually" run of a session whose
\* episode is terminated or truncated leaves every EpisodeState field as it
\* was, calls neither env.reset nor env.step, and shows the "Episode
\* finished" warning; this holds for every such run, so for any number of
\* them in a row.
C1_TerminalAbsorption ==
  [][\A s \in Sessions :
       (/\ event'.session = s
        /\ event'.kind = "step"
        /\ ss[s].has_state
        /\ ss[s].terminated \/ ss[s].truncated)
       => /\ EpisodeState(ss'[s]) = EpisodeState(ss[s])
          /\ calls'.step = 0
          /\ calls'.reset = 0
          /\ notice' = MsgFinished]_vars

C1_Witness ==
  \E s \in Sessions :
    /\ event.session = s
    /\ event.kind = "step"
    /\ notice = MsgFinished
    /\ ss[s].terminated
    /\ ss[s].steps >= 1
    /\ event.steps_before = ss[s].steps

\* C2 -- Reset: right after a "Reset Environment" run, whatever the session
\* held before, steps = 0, total_reward = 0, terminated = truncated = FALSE,
\* last action = "None", last reward = 0, and the current state is the state
\* the run's env.reset() returned, which is the environment's state.
C2_Reset ==
  \A s \in Sessions :
    (event.session = s /\ event.kind = "reset")
    => /\ ss[s].has_state
       /\ ss[s].steps = 0
       /\ ss[s].total_reward = 0
       /\ ~ss[s].terminated
       /\ ~ss[s].truncated
       /\ ss[s].last_action_desc = "None"
       /\ ss[s].last_reward = 0
       /\ calls.reset = 1
       /\ ss[s].state = calls.reset_state
       /\ ss[s].state = env.s

C2_Witness ==
  \E s \in Sessions :
    /\ event.session = s
    /\ event.kind = "reset"
    /\ event.steps_before >= 2
    /\ ss[s].steps = 0
    /\ notice = MsgReset

\* C3 -- Run Full Simulation runs a complete episode: when the script run
\* that handles the button has ended, the episode is terminated or truncated
\* and at least one step was taken.
C3_RunCompletesEpisode ==
  \A s \in Sessions :
    (event.session = s /\ event.kind = "run" /\ pc[s] = "done")
    => (Terminal(ss[s]) /\ ss[s].steps >= 1)

\* The EpisodeStates that "Step Manually", repeated until it reports a
\* finished episode, can end in from the session state rec and the
\* environment e.
RECURSIVE SingleStepOutcomes(_, _)
SingleStepOutcomes(rec, e) ==
  IF ~CanStep(rec) THEN {EpisodeState(rec)}
  ELSE UNION { SingleStepOutcomes(
                 StepFields(rec,
                            select_best_action(rec.state, q_table).action, r),
                 EnvAfterStep(e, r)) : r \in StepResults(e) }

\* C4 -- Run-to-completion equivalence: the EpisodeState in which the
\* handling of "Run Full Simulation" ends is one in which single-stepping
\* from the same reset state to the end of the episode ends, under the same
\* table.
C4_RunEqualsSingleStepping ==
  \A s \in Sessions :
    (event.session = s /\ event.kind = "run" /\ pc[s] = "done")
    => EpisodeState(ss[s]) \in
         SingleStepOutcomes(ResetFields(EmptySession, calls.reset_state),
                            EnvAfterReset(calls.reset_state))

\* C5 -- Monotonic step counter: a run that calls env.step raises the
\* session's counter by exactly 1; without a reset of the session the
\* counter never goes down and never moves by more than 1; it moves only
\* through an env.step call of that session; and a "Step Manually" run in a
\* non-terminal state makes exactly one env.step call.
C5_StepCounter ==
  [][\A s \in Sessions :
       LET d == ss'[s].steps - ss[s].steps IN
       /\ (event'.session = s /\ calls'.step >= 1)
          => (calls'.step = 1 /\ d = 1)
       /\ (event'.session # s \/ calls'.reset = 0) => d \in {0, 1}
       /\ (d # 0 /\ calls'.reset = 0)
          => (event'.session = s /\ calls'.step = 1)
       /\ (/\ event'.session = s
           /\ event'.kind = "step"
           /\ ss[s].has_state
           /\ ~ss[s].terminated
           /\ ~ss[s].truncated)
          => (calls'.step = 1 /\ d = 1)]_vars

C5_Witness ==
  \E s \in Sessions :
    /\ event.session = s
    /\ event.kind = "step"
    /\ calls.step = 1
    /\ event.steps_before = 1
    /\ ss[s].steps = 2

\* C6 -- Tie-break law: for an in-range state the evaluator returns an
\* action whose value is the maximum of the state's row, and no smaller
\* action has that value.
C6_TieBreak ==
  (evalResult.called /\ evalState \in States)
  => /\ evalResult.raised = "none"
     /\ evalResult.action \in Actions
     /\ \A b \in Actions :
          q_table[evalState][b] <= q_table[evalState][evalResult.action]
     /\ \A b \in Actions :
          b < evalResult.action
          => q_table[evalState][b] < q_table[evalState][evalResult.action]

\* The maximum is tied and the first of the tied actions, not action 0, is
\* returned: a row like [0, 1, 1].
C6_Witness ==
  /\ evalResult.called
  /\ evalState \in States
  /\ evalResult.action >= 1
  /\ \E b \in Actions :
       /\ b > evalResult.action
       /\ q_table[evalState][b] = q_table[evalState][evalResult.action]

\* C7 -- InvalidState: for every state index outside 0 .. NumStates - 1,
\* negative ones included, the evaluator raises a range error.
C7_OutOfRangeRaises ==
  (evalResult.called /\ evalState \notin States)
  => evalResult.raised = "IndexError"

\* C9 -- No stepping while terminal: a session whose episode is terminated
\* or truncated makes no env.step call, from a button handler or from the
\* main loop, until a reset of the session has cleared the flags.
C9_NoStepWhileTerminal ==
  [][\A s \in Sessions :
       (event'.session = s /\ calls'.step >= 1)
       => (~ss[s].terminated /\ ~ss[s].truncated)]_vars

C9_Witness ==
  \E s \in Sessions :
    /\ event.session = s
    /\ event.kind = "step"
    /\ ss[s].truncated
    /\ ~ss[s].terminated
    /\ calls.step = 0
    /\ calls.reset = 0

\* C10 -- Exclusive ownership: while a session holds an EpisodeState, no
\* script run of another session changes the environment.
C10_ExclusiveOwnership ==
  [][\A s \in Sessions :
       (ss[s].has_state /\ event'.session # s) => env' = env]_vars

\* C11 -- MissingResource: when the Q-table file is missing at the first
\* load, the error is shown and every script run stops before line 50: no
\* session gets an EpisodeState, and no env.reset, env.step or env.render is
\* ever made, on that run or any later one: a session whose run was stopped
\* keeps meeting the cached failure, even once the file is there.
C11_MissingResource ==
  /\ (~fileExists /\ event.session # "none") => cache = "failed"
  /\ (\E s \in Sessions : started[s] /\ ~ss[s].has_state)
     => cache = "failed"
  /\ cache = "failed"
     => /\ env = NoEnv
        /\ calls = NoCalls
        /\ \A s \in Sessions :
             /\ ~ss[s].has_state
             /\ ~frame[s].shown
             /\ pc[s] = "done"
        /\ event.session # "none" => notice = MsgMissing

C11_Witness ==
  /\ cache = "failed"
  /\ fileExists
  /\ \A s \in Sessions : started[s] /\ ~ss[s].has_state
  /\ event.kind = "rerun"
  /\ notice = MsgMissing

\* A script run of LoopSession is started: its first load, a rerun or a
\* button.
ScriptRunStarts ==
  \/ FirstLoad(LoopSession)
  \/ Rerun(LoopSession)
  \/ RunFullSimulation(LoopSession)
  \/ ResetEnvironment(LoopSession)
  \/ StepManually(LoopSession)

\* While the loop runs, the next iteration can be taken exactly when neither
\* flag is set (no cap of the loop's own stops it) and the loop can be left
\* exactly when a flag is set.
LoopEndsAtTerminal ==
  pc[LoopSession] = "loop"
  => /\ (ENABLED MainLoopIteration(LoopSession))
          <=> (~ss[LoopSession].terminated /\ ~ss[LoopSession].truncated)
     /\ (ENABLED MainLoopExit(LoopSession))
          <=> (ss[LoopSession].terminated \/ ss[LoopSession].truncated)

\* C12 -- Run-to-completion termination: the main loop has no step cap of
\* its own and ends exactly at the first step result that sets terminated or
\* truncated; with an environment that reports such a result, a loop that
\* is entered is left, unless script runs of the session keep replacing it.
C12_LoopTermination ==
  /\ []LoopEndsAtTerminal
  /\ \/ []<><<ScriptRunStarts>>_vars
     \/ (pc[LoopSession] = "loop") ~> (pc[LoopSession] = "done")

C12_Witness ==
  /\ event.session = LoopSession
  /\ event.kind = "exit"
  /\ pc[LoopSession] = "done"
  /\ ss[LoopSession].run_flag = "false"
  /\ ss[LoopSession].truncated
  /\ ~ss[LoopSession].terminated
  /\ ss[LoopSession].steps >= 2

RECURSIVE SumRewards(_)
SumRewards(log) ==
  IF log = << >> THEN 0 ELSE log[1].reward + SumRewards(Tail(log))

\* C13 -- Reward and flag bookkeeping: in every state, a session's
\* total_reward is the sum of the rewards of the step results it received
\* since its last reset, its last reward is the reward of the latest of them
\* (0 if none), and terminated / truncated are the flags of the latest of
\* them (both FALSE if none).
C13_Bookkeeping ==
  \A s \in Sessions :
    ss[s].has_state
    => LET log == received[s]
           n == Len(log)
       IN /\ ss[s].total_reward = SumRewards(log)
          /\ ss[s].last_reward = (IF n = 0 THEN 0 ELSE log[n].reward)
          /\ ss[s].terminated = (n > 0 /\ log[n].terminated)
          /\ ss[s].truncated = (n > 0 /\ log[n].truncated)

C13_Witness ==
  \E s \in Sessions :
    /\ Len(received[s]) = 2
    /\ received[s][1].reward = 0 - 1
    /\ received[s][2].reward = 20
    /\ ss[s].total_reward = 19
    /\ ss[s].last_reward = 20
    /\ ss[s].terminated

\* C14 -- Greedy policy control: the action of every env.step call, from the
\* "Step Manually" handler or from the main loop, is the first action that
\* attains the maximum of the Q-table row of the session's current state at
\* the call, and the last action recorded is the name of that action.
C14_GreedyControl ==
  [][\A s \in Sessions :
       (event'.session = s /\ calls'.step = 1)
       => LET a == calls'.step_action
              row == q_table[ss[s].state]
          IN /\ a \in Actions
             /\ \A b \in Actions : row[b] <= row[a]
             /\ \A b \in Actions : b < a => row[b] < row[a]
             /\ ss'[s].last_action_desc = ACTION_MAP[a]]_vars

C14_Witness ==
  /\ event.session = LoopSession
  /\ event.kind = "loop"
  /\ calls.step = 1
  /\ calls.step_action >= 1
  /\ ss[LoopSession].last_action_desc = ACTION_MAP[calls.step_action]

\* The same case reached through the "Step Manually" handler.
C14_WitnessStep ==
  /\ event.session = LoopSession
  /\ event.kind = "step"
  /\ calls.step = 1
  /\ calls.step_action >= 1
  /\ ss[LoopSession].last_action_desc = ACTION_MAP[calls.step_action]

\* C15 -- Intermediate observability: every iteration of the main loop makes
\* one env.step call and then one update_display() before the next
\* iteration, and what is displayed is the updated EpisodeState: the frame
\* of the state just reached, the new step count and the banner of the new
\* flags.
C15_DisplayEveryStep ==
  \A s \in Sessions :
    (event.session = s /\ event.kind = "loop")
    => /\ calls.step = 1
       /\ calls.render = 1
       /\ ss[s].steps = event.steps_before + 1
       /\ frame[s].shown
       /\ frame[s].state = ss[s].state
       /\ frame[s].caption = ss[s].steps
       /\ frame[s].banner = (IF ss[s].terminated THEN "success"
                             ELSE IF ss[s].truncated THEN "truncated"
                             ELSE "none")

\* An intermediate state is on display: the loop has taken a step and will
\* take another.
C15_Witness ==
  /\ event.session = LoopSession
  /\ event.kind = "loop"
  /\ pc[LoopSession] = "loop"
  /\ ss[LoopSession].steps = 1
  /\ ~ss[LoopSession].terminated
  /\ ~ss[LoopSession].truncated
  /\ frame[LoopSession].caption = 1

\* C16 -- Driver/environment synchronisation: while a single session uses
\* the application, the state recorded in its EpisodeState is the state the
\* environment last returned from reset or step (and is the environment's
\* current state), so it is a valid row of the Q-table and
\* select_best_action raises nothing on it.
C16_DriverEnvSync ==
  \A s \in Sessions :
    (ss[s].has_state /\ \A t \in Sessions \ {s} : ~started[t])
    => /\ ss[s].state = env.s
       /\ ss[s].state \in States
       /\ select_best_action(ss[s].state, q_table).raised = "none"
       /\ event.session = s
          => /\ calls.step = 1 => ss[s].state = calls.step_result.state
             /\ (calls.step = 0 /\ calls.reset = 1)
                => ss[s].state = calls.reset_state
       /\ received[s] # << >>
          => ss[s].state = received[s][Len(received[s])].state

\* The only session has run two steps and the environment moved it to
\* state 1.
C16_Witness ==
  /\ \A t \in Sessions \ {LoopSession} : ~started[t]
  /\ ss[LoopSession].has_state
  /\ event.session = LoopSession
  /\ event.kind = "loop"
  /\ ss[LoopSession].steps = 2
  /\ Len(received[LoopSession]) = 2
  /\ received[LoopSession][1].state = 0
  /\ ss[LoopSession].state = 1
  /\ env.s = 1

\* C17 -- Rerun frame condition: a script execution with no button pressed
\* resets the environment only when it is the session's first execution;
\* any later one calls neither env.reset nor env.step, leaves every field of
\* EpisodeState and the environment as they were, and only displays.
C17_RerunFrame ==
  [][\A s \in Sessions :
       /\ (event'.session = s /\ event'.kind = "rerun")
          => /\ calls'.reset = 0
             /\ calls'.step = 0
             /\ ss'[s] = ss[s]
             /\ env' = env
             /\ received'[s] = received[s]
             /\ ss[s].has_state
                => /\ calls'.render = 1
                   /\ frame'[s].shown
                   /\ frame'[s].caption = ss[s].steps
       /\ (event'.session = s /\ event'.kind = "first" /\ calls'.reset = 1)
          => /\ ~started[s]
             /\ ~ss[s].has_state
             /\ ss'[s].steps = 0
             /\ ss'[s].state = calls'.reset_state
     ]_vars

\* A session that has taken a step was executed again with no button
\* pressed.
C17_Witness ==
  \E s \in Sessions :
    /\ event.session = s
    /\ event.kind = "rerun"
    /\ ss[s].has_state
    /\ ss[s].steps >= 1
    /\ ss[s].total_reward # 0
    /\ calls.reset = 0
    /\ calls.step = 0
    /\ calls.render = 1

====
